---- MODULE Spec2Model ----
(***************************************************************************)
(* Model of trezor_agent/gpg/encode.py: OpenPGP packet framing, MPI        *)
(* encoding, the public-key model, the hash-then-sign signature builder    *)
(* and the Signer flows (export, subkey, sign) with their two signing      *)
(* backends (hardware device, gpg-agent).                                  *)
(*                                                                         *)
(* Python integers are unbounded; they are modelled as little-endian       *)
(* base-256 digit sequences without a trailing zero digit (0 is <<>>), so  *)
(* that lengths of 2^32 and values of 2^65535 can be written down.         *)
(* Byte strings are sequences of items.  An item is a literal byte, a      *)
(* slice of a hash digest, or an opaque blob of a given length.            *)
(***************************************************************************)
EXTENDS Integers, Sequences, FiniteSets, TLC

VARIABLES pc, args, ret, hw, agentOpen, pubkey, frame, req, log, calls

vars == <<pc, args, ret, hw, agentOpen, pubkey, frame, req, log, calls>>

(***************************************************************************)
(* Bounds of the model.                                                    *)
(***************************************************************************)
MaxTag == 64
MaxDelta == 1
MaxLit == 2
MaxDigits == 3

(***************************************************************************)
(* Python integers.                                                        *)
(***************************************************************************)
Min(a, b) == IF a < b THEN a ELSE b
Max(a, b) == IF a > b THEN a ELSE b

RECURSIVE num(_)
num(n) == IF n = 0 THEN <<>> ELSE <<n % 256>> \o num(n \div 256)

RECURSIVE strip(_)
strip(v) == IF v = <<>> THEN <<>>
            ELSE IF v[Len(v)] = 0 THEN strip(SubSeq(v, 1, Len(v) - 1))
            ELSE v

digit(v, i) == IF i <= Len(v) THEN v[i] ELSE 0

\* value >> (8 * k)
shr(v, k) == IF k >= Len(v) THEN <<>> ELSE SubSeq(v, k + 1, Len(v))

\* value << (8 * k)
shl(v, k) == IF v = <<>> THEN <<>> ELSE [i \in 1..k |-> 0] \o v

\* value & 0xFF
and_ff(v) == digit(v, 1)

RECURSIVE or8(_, _)
or8(a, b) == IF a = 0 THEN b
             ELSE IF b = 0 THEN a
             ELSE 2 * or8(a \div 2, b \div 2) + Max(a % 2, b % 2)

\* a | b
bit_or(a, b) == strip([i \in 1..Max(Len(a), Len(b)) |->
                          or8(digit(a, i), digit(b, i))])

RECURSIVE add_c(_, _, _, _)
add_c(a, b, i, c) ==
    IF i > Max(Len(a), Len(b))
    THEN (IF c = 0 THEN <<>> ELSE <<c>>)
    ELSE LET s == digit(a, i) + digit(b, i) + c
         IN  <<s % 256>> \o add_c(a, b, i + 1, s \div 256)

\* a + b
add(a, b) == add_c(a, b, 1, 0)

\* a < 2 ** (8 * k)
below_pow(v, k) == Len(v) <= k

RECURSIVE bits8(_)
bits8(d) == IF d = 0 THEN 0 ELSE 1 + bits8(d \div 2)

\* int.bit_length()
bit_length(v) == IF v = <<>> THEN 0
                 ELSE 8 * (Len(v) - 1) + bits8(v[Len(v)])

(***************************************************************************)
(* Byte strings.                                                           *)
(***************************************************************************)
B(n) == [t |-> "byte", v |-> n, d |-> <<>>, lo |-> 0, n |-> <<1>>]

Blob(id, length) == [t |-> "blob", v |-> id, d |-> <<>>, lo |-> 0, n |-> length]

HashItem(alg, data, lo, length) ==
    [t |-> alg, v |-> 0, d |-> data, lo |-> lo, n |-> num(length)]

bytes(s) == [i \in 1..Len(s) |-> B(s[i])]

RECURSIVE len_range(_, _, _)
len_range(bs, a, b) ==
    IF a > b THEN <<>>
    ELSE IF a = b THEN bs[a].n
    ELSE LET m == (a + b) \div 2
         IN  add(len_range(bs, a, m), len_range(bs, m + 1, b))

\* len(blob)
len(bs) == len_range(bs, 1, Len(bs))

reverse(s) == [i \in 1..Len(s) |-> s[Len(s) + 1 - i]]

Ok(v) == [err |-> "none", val |-> v]
Raise(e) == [err |-> e, val |-> <<>>]

width(fmt) == CASE fmt = ">B" -> 1
                [] fmt = ">H" -> 2
                [] fmt = ">L" -> 4

\* struct.pack(fmt, value) for one unsigned big-endian field
pack(fmt, v) ==
    IF Len(v) > width(fmt) THEN Raise("struct.error")
    ELSE Ok([i \in 1..width(fmt) |-> B(digit(v, width(fmt) + 1 - i))])

\* util.prefix_len(fmt, blob) = struct.pack(fmt, len(blob)) + blob
prefix_len(fmt, blob) ==
    LET head == pack(fmt, len(blob))
    IN  IF head.err # "none" THEN head ELSE Ok(head.val \o blob)

(***************************************************************************)
(* packet                                                                  *)
(***************************************************************************)
\* variant: the class boundaries taken one byte too high
length_type_inclusive(blob) ==
    IF below_pow(len(blob), 1) \/ len(blob) = <<0, 1>> THEN 0
    ELSE IF below_pow(len(blob), 2) \/ len(blob) = <<0, 0, 1>> THEN 1
    ELSE 2

length_type(blob) == IF below_pow(len(blob), 1) THEN 0
                     ELSE IF below_pow(len(blob), 2) THEN 1
                     ELSE 2

\* variant: the tag shifted by one bit instead of two
leading_byte_shift1(tag, blob) == or8(or8(128, tag * 2), length_type(blob))

leading_byte(tag, blob) == or8(or8(128, tag * 4), length_type(blob))

packet(tag, blob) ==
    IF ~below_pow(len(blob), 4) THEN Raise("AssertionError")
    ELSE LET fmt  == <<">B", ">H", ">L">>[length_type(blob) + 1]
             head == pack(">B", num(leading_byte(tag, blob)))
             body == prefix_len(fmt, blob)
         IN  IF head.err # "none" THEN head
             ELSE IF body.err # "none" THEN body
             ELSE Ok(head.val \o body.val)

(***************************************************************************)
(* mpi                                                                     *)
(***************************************************************************)
\* the loop of mpi: in iteration i the running value is value >> (8 * i)
data_bytes(value, data_size) ==
    [i \in 1..data_size |-> B(and_ff(shr(value, i - 1)))]

\* variant: the data bytes left in the order the loop produced them
mpi_unreversed(value) ==
    LET bits      == bit_length(value)
        data_size == (bits + 7) \div 8
        head      == pack(">H", num(bits))
    IN  IF head.err # "none" THEN head
        ELSE Ok(head.val \o data_bytes(value, data_size))

mpi(value) ==
    LET bits      == bit_length(value)
        data_size == (bits + 7) \div 8
        head      == pack(">H", num(bits))
    IN  IF head.err # "none" THEN head
        ELSE Ok(head.val \o reverse(data_bytes(value, data_size)))

(***************************************************************************)
(* Inputs of the pure functions.                                           *)
(***************************************************************************)
Null == [err |-> "pending", val |-> <<>>]

\* 256^k - 1 - d and 256^k + d
BelowPow(k, d) == [i \in 1..k |-> IF i = 1 THEN 255 - d ELSE 255]
AbovePow(k, d) == [i \in 1..(k + 1) |-> IF i = 1 THEN d ELSE IF i = k + 1 THEN 1 ELSE 0]

BoundaryLens == {BelowPow(k, d) : k \in {1, 2, 4}, d \in 0..MaxDelta}
                \cup {AbovePow(k, d) : k \in {1, 2, 4}, d \in 0..MaxDelta}

Literals == UNION {[1..n -> {B(0), B(7)}] : n \in 0..MaxLit}

Blobs == Literals \cup {<<Blob(id, n)>> : id \in {1, 2}, n \in BoundaryLens}

Digits == {0, 1, 127, 128, 255}

SmallValues == {v \in UNION {[1..n -> Digits] : n \in 0..MaxDigits} : strip(v) = v}

\* 2^65535 - 1, 2^65535 and 2^65536: around the widest bit length '>H' holds
WideValues == {[i \in 1..8192 |-> IF i = 8192 THEN 127 ELSE 255],
               [i \in 1..8192 |-> IF i = 8192 THEN 128 ELSE 0],
               AbovePow(8192, 0)}

MpiValues == SmallValues \cup WideValues

Idle == /\ hw = "none"
        /\ agentOpen = 0
        /\ pubkey = "none"
        /\ frame = "none"
        /\ req = "none"
        /\ log = <<>>
        /\ calls = 0

IdleUnchanged == UNCHANGED <<hw, agentOpen, pubkey, frame, req, log, calls>>

InitPacket == /\ pc = "call"
              /\ args \in [tag : 0..MaxTag, blob : Blobs]
              /\ ret = Null
              /\ Idle

CallPacket == /\ pc = "call"
              /\ ret' = packet(args.tag, args.blob)
              /\ pc' = "returned"
              /\ UNCHANGED args
              /\ IdleUnchanged

NextPacket == CallPacket

SpecPacket == InitPacket /\ [][NextPacket]_vars

InitMpi == /\ pc = "call"
           /\ args \in [value : MpiValues]
           /\ ret = Null
           /\ Idle

CallMpi == /\ pc = "call"
           /\ ret' = mpi(args.value)
           /\ pc' = "returned"
           /\ UNCHANGED args
           /\ IdleUnchanged

NextMpi == CallMpi

SpecMpi == InitMpi /\ [][NextMpi]_vars

(***************************************************************************)
(* Results that may be exceptions: sequencing and concatenation.           *)
(***************************************************************************)
\* x, computed from r.val, unless r is an exception
after(r, x) == IF r.err # "none" THEN r ELSE x

RECURSIVE cat(_)
cat(rs) == IF rs = <<>> THEN Ok(<<>>)
           ELSE LET h == Head(rs)
                    t == cat(Tail(rs))
                IN  IF h.err # "none" THEN h
                    ELSE IF t.err # "none" THEN t
                    ELSE Ok(h.val \o t.val)

vals(rs) == [i \in 1..Len(rs) |-> rs[i].val]

\* util.bytes2num: big-endian value of a byte string
bytes2num(bs) == strip(reverse([i \in 1..Len(bs) |-> bs[i].v]))

\* s[a:b] of a byte string of literal bytes
slice(bs, a, b) == SubSeq(bs, a + 1, Min(b, Len(bs)))

\* digest[a:b] of a digest held as one item
digest_slice(digest, a, b) ==
    <<[digest[1] EXCEPT !.lo = digest[1].lo + a, !.n = num(b - a)]>>

sha256(data) == <<HashItem("sha256", data, 0, 32)>>

sha1(data) == <<HashItem("sha1", data, 0, 20)>>

(***************************************************************************)
(* subpackets                                                              *)
(***************************************************************************)
\* subpacket(subpacket_type, fmt, *values); blob is struct.pack(fmt, *values)
\* or fmt itself when there are no values
subpacket(subpacket_type, blob) == cat(<<pack(">B", num(subpacket_type)), blob>>)

subpacket_long(subpacket_type, value) == subpacket(subpacket_type, pack(">L", value))

subpacket_time(value) == subpacket_long(2, value)

subpacket_byte(subpacket_type, value) == subpacket(subpacket_type, pack(">B", num(value)))

subpackets(items) ==
    LET prefixed == cat([i \in 1..Len(items) |-> prefix_len(">B", items[i])])
    IN  after(prefixed, prefix_len(">H", prefixed.val))

(***************************************************************************)
(* Curve registry and public keys.                                         *)
(***************************************************************************)
CURVE_NIST256 == "nist256p1"
CURVE_ED25519 == "ed25519"

SUPPORTED_CURVES ==
    [c \in {CURVE_NIST256, CURVE_ED25519} |->
        IF c = CURVE_NIST256
        THEN [oid |-> bytes(<<42, 134, 72, 206, 61, 3, 1, 7>>), algo_id |-> 19]
        ELSE [oid |-> bytes(<<43, 6, 1, 4, 1, 218, 71, 15, 1>>), algo_id |-> 22]]

_serialize_nist256(vk) ==
    mpi(bit_or(bit_or(shl(<<4>>, 64), shl(vk.x, 32)), vk.y))

_serialize_ed25519(vk) ==
    mpi(bit_or(shl(<<64>>, 32), bytes2num(vk.raw)))

serialize(curve_name, vk) == IF curve_name = CURVE_NIST256
                             THEN _serialize_nist256(vk)
                             ELSE _serialize_ed25519(vk)

\* [None] when no curve or several curves have the id: the unpacking raises
_find_curve_by_algo_id(algo_id) ==
    LET names == {c \in DOMAIN SUPPORTED_CURVES : SUPPORTED_CURVES[c].algo_id = algo_id}
    IN  IF Cardinality(names) = 1 THEN CHOOSE c \in names : TRUE ELSE "ValueError"

NoKey == [curve_name |-> "none", created |-> <<>>,
          verifying_key |-> [x |-> <<>>, y |-> <<>>, raw |-> <<>>], algo_id |-> 0]

PublicKey(curve_name, created, verifying_key) ==
    [curve_name |-> curve_name, created |-> created,
     verifying_key |-> verifying_key,
     algo_id |-> SUPPORTED_CURVES[curve_name].algo_id]

data(pk) ==
    cat(<<pack(">B", num(4)), pack(">L", pk.created), pack(">B", num(pk.algo_id)),
          prefix_len(">B", SUPPORTED_CURVES[pk.curve_name].oid),
          serialize(pk.curve_name, pk.verifying_key)>>)

data_to_hash(pk) ==
    LET body == data(pk)
    IN  cat(<<Ok(<<B(153)>>), after(body, prefix_len(">H", body.val))>>)

_fingerprint(pk) == LET hashable == data_to_hash(pk)
                    IN  after(hashable, Ok(sha1(hashable.val)))

key_id(pk) == LET fingerprint == _fingerprint(pk)
              IN  after(fingerprint, Ok(digest_slice(fingerprint.val, 12, 20)))

(***************************************************************************)
(* _make_signature, split where it blocks in signer_func.                  *)
(***************************************************************************)
sig_header(sig_type, public_algo) ==
    cat(<<pack(">B", num(4)), pack(">B", num(sig_type)),
          pack(">B", num(public_algo)), pack(">B", num(8))>>)

sig_tail(header, hashed) ==
    cat(<<Ok(<<B(4), B(255)>>), pack(">L", add(len(header), len(hashed)))>>)

\* variant: the unhashed subpackets hashed as well
sig_data_to_hash_all(data_to_sign, header, hashed, unhashed, tail) ==
    data_to_sign \o header \o hashed \o unhashed \o tail

sig_data_to_hash(data_to_sign, header, hashed, unhashed, tail) ==
    data_to_sign \o header \o hashed \o tail

sig_body(header, hashed, unhashed, digest, sig) ==
    header \o hashed \o unhashed \o digest_slice(digest, 0, 2) \o sig

\* everything up to the call of signer_func(digest=digest)
NoSig == [err |-> "none", header |-> <<>>, hashed |-> <<>>, unhashed |-> <<>>,
          digest |-> <<>>]

_make_signature(data_to_sign, public_algo, hashed_subpackets, unhashed_subpackets, sig_type) ==
    LET args_  == cat(<<data_to_sign>> \o hashed_subpackets \o unhashed_subpackets)
        header   == sig_header(sig_type, public_algo)
        hashed   == subpackets(vals(hashed_subpackets))
        unhashed == subpackets(vals(unhashed_subpackets))
        tail     == sig_tail(header.val, hashed.val)
        before   == cat(<<args_, header, hashed, unhashed, tail>>)
    IN  IF before.err # "none" THEN [NoSig EXCEPT !.err = before.err]
        ELSE [err |-> "none", header |-> header.val, hashed |-> hashed.val,
              unhashed |-> unhashed.val,
              digest |-> sha256(sig_data_to_hash(data_to_sign.val, header.val,
                                                 hashed.val, unhashed.val,
                                                 tail.val))]

(***************************************************************************)
(* The two signing backends.                                               *)
(***************************************************************************)
\* a reply of the capability: an exception, or the value it returns
Failure == [kind |-> "raise", signature |-> <<>>, params |-> <<>>]
Result(signature) == [kind |-> "result", signature |-> signature, params |-> <<>>]
Params(params) == [kind |-> "result", signature |-> <<>>, params |-> params]

\* HardwareSigner.sign after sign_identity returned or raised
HardwareSigner_sign(reply) ==
    IF reply.kind = "raise" THEN Raise("DeviceError")
    ELSE IF slice(reply.signature, 0, 1) # <<B(0)>> THEN Raise("AssertionError")
    ELSE LET sig == slice(reply.signature, 1, Len(reply.signature))
         IN  cat(<<mpi(bytes2num(slice(sig, 0, 32))),
                   mpi(bytes2num(slice(sig, 32, Len(sig))))>>)

\* variant: an exception of the agent swallowed, an empty value returned
AgentSigner_sign_swallow(reply) ==
    IF reply.kind = "raise" THEN Ok(<<>>)
    ELSE cat([i \in 1..Len(reply.params) |-> mpi(reply.params[i])])

\* AgentSigner.sign after agent.sign returned or raised
AgentSigner_sign(reply) ==
    IF reply.kind = "raise" THEN Raise("AgentError")
    ELSE cat([i \in 1..Len(reply.params) |-> mpi(reply.params[i])])

(***************************************************************************)
(* A signing session: one Signer, its calls, and the capabilities' replies.*)
(***************************************************************************)
MaxCalls == 2
MaxCreated == 1
MaxSkew == 1

Createds == {num(c) : c \in 1..MaxCreated}

UserIds == {bytes(<<97, 64, 98>>)}

VKeys == {[x |-> <<k>>, y |-> <<9, 1>>,
           raw |-> bytes([i \in 1..32 |-> IF i = 32 THEN k ELSE 0])] : k \in {1, 2}}

CurveNames == {CURVE_NIST256, CURVE_ED25519, "secp256k1"}

\* formats.SUPPORTED_CURVES
FORMATS_SUPPORTED_CURVES == {CURVE_NIST256, CURVE_ED25519}

\* what the device does when the Signer is constructed
Devices == {[kind |-> "no_device", vk |-> NoKey.verifying_key],
            [kind |-> "pubkey_error", vk |-> NoKey.verifying_key]}
           \cup {[kind |-> "key", vk |-> k] : k \in VKeys}

NoDisk == [created |-> <<>>, algo |-> 0, key_id |-> <<>>]

\* keyring entries handed to from_public_key (decode.load_from_gpg)
DiskKeys ==
    {[created |-> c, algo |-> SUPPORTED_CURVES[n].algo_id,
      key_id |-> key_id(PublicKey(n, c2, k)).val] :
        c \in Createds, c2 \in Createds, n \in DOMAIN SUPPORTED_CURVES, k \in VKeys}
    \cup {[created |-> c, algo |-> 1, key_id |-> <<Blob(3, num(8))>>] : c \in Createds}

NoPrimary == [_to_hash |-> <<>>, key_id |-> <<>>, algo |-> 0]

\* primary keys found in the keyring by Signer.subkey
Primaries == {[_to_hash |-> <<Blob(5, num(40))>>, key_id |-> <<Blob(6, num(8))>>,
               algo |-> 22]}

Msgs == {<<B(104), B(105)>>}

\* sign_time: a 32-bit time, and one that '>L' cannot hold
SignTimes == {num(3), AbovePow(4, 0)}

\* raw result.signature values: marker byte, then n bytes 1, 2, 3, ...
Raw(marker, n) == <<B(marker)>> \o bytes([i \in 1..n |-> i])

RawSignatures == {Raw(m, n) : m \in {0, 1}, n \in (64 - MaxSkew)..(64 + MaxSkew)}
                 \cup {<<>>}

HwReplies == {Failure} \cup {Result(s) : s \in RawSignatures}

AgentReplies == {Failure, Params(<<<<5>>, <<0, 1>>>>)}

AgentInits == {"ok", "connect_failed", "keygrip_failed"}

NoArgs == [ctor |-> "none", user_id |-> <<>>, created |-> <<>>,
           curve_name |-> "none", disk |-> NoDisk]

NoFrame == [op |-> "none", out |-> <<>>, primary |-> NoPrimary,
            data_to_sign |-> <<>>, header |-> <<>>, hashed |-> <<>>,
            unhashed |-> <<>>, digest |-> <<>>]

NoReq == [to |-> "none", digest |-> <<>>]

Init == /\ pc = "start"
        /\ args = NoArgs
        /\ ret = Null
        /\ hw = "none"
        /\ agentOpen = 0
        /\ pubkey = NoKey
        /\ frame = NoFrame
        /\ req = NoReq
        /\ log = <<>>
        /\ calls = 0

\* Signer.__init__: the outcome, the state of the device connection and the key
Signer__init__(user_id, created, curve_name, dev) ==
    IF curve_name \notin FORMATS_SUPPORTED_CURVES
    THEN [err |-> "AssertionError", hw |-> "none", pubkey |-> NoKey]
    ELSE IF dev.kind = "no_device"
    THEN [err |-> "DeviceError", hw |-> "none", pubkey |-> NoKey]
    ELSE IF dev.kind = "pubkey_error"
    THEN [err |-> "DeviceError", hw |-> "open", pubkey |-> NoKey]
    ELSE [err |-> "none", hw |-> "open",
          pubkey |-> PublicKey(curve_name, created, dev.vk)]

\* variant: the key id of the keyring entry not compared
key_id_matches_unchecked(s_pubkey, disk) == TRUE

\* the assertion of from_public_key
key_id_matches(s_pubkey, disk) == key_id(s_pubkey).val = disk.key_id

\* the constructor raised: the caller holds no Signer
Constructed(s) ==
    /\ hw' = s.hw
    /\ pubkey' = s.pubkey
    /\ ret' = IF s.err = "none" THEN Ok(<<>>) ELSE Raise(s.err)
    /\ pc' = IF s.err = "none" THEN "idle" ELSE "done"
    /\ UNCHANGED <<agentOpen, frame, req, log, calls>>

NewSigner(user_id, created, curve_name, dev) ==
    /\ pc = "start"
    /\ args' = [ctor |-> "Signer", user_id |-> user_id, created |-> created,
                curve_name |-> curve_name, disk |-> NoDisk]
    /\ Constructed(Signer__init__(user_id, created, curve_name, dev))

from_public_key(disk, user_id, dev) ==
    /\ pc = "start"
    /\ LET curve_name == _find_curve_by_algo_id(disk.algo)
           s == Signer__init__(user_id, disk.created, curve_name, dev)
       IN  /\ args' = [ctor |-> "from_public_key", user_id |-> user_id,
                       created |-> disk.created, curve_name |-> curve_name,
                       disk |-> disk]
           /\ IF curve_name = "ValueError"
              THEN Constructed([err |-> "ValueError", hw |-> "none", pubkey |-> NoKey])
              ELSE IF s.err = "none" /\ ~key_id_matches(s.pubkey, disk)
              THEN Constructed([s EXCEPT !.err = "AssertionError"])
              ELSE Constructed(s)

(***************************************************************************)
(* Calls of export, subkey and sign.  `log` records, for the call in        *)
(* progress or the last one, every call of signer_func: its arguments in   *)
(* _make_signature, the reply and what _make_signature returned.           *)
(***************************************************************************)
Entry(callno, op, to, sig_type, public_algo, data_to_sign, hashed_subpackets, unhashed_subpackets, m) ==
    [call |-> callno, op |-> op, to |-> to, sig_type |-> sig_type,
     public_algo |-> public_algo, data_to_sign |-> data_to_sign,
     hashed_subpackets |-> hashed_subpackets,
     unhashed_subpackets |-> unhashed_subpackets,
     digest |-> m.digest, outcome |-> "pending",
     reply |-> Failure, sig |-> <<>>, body |-> <<>>]

Answered(reply, outcome, sig, body) ==
    [log EXCEPT ![Len(log)] = [@ EXCEPT !.outcome = outcome, !.reply = reply,
                                        !.sig = sig, !.body = body]]

\* the call returns r or raises r.err
Return(r) == /\ ret' = (IF r.err = "none" THEN r ELSE Raise(r.err))
             /\ pc' = "idle"
             /\ frame' = NoFrame
             /\ req' = NoReq

\* variant: the first failed request of a call sent once more
Propagate_retry(reply, e) ==
    IF Len(log) = 1
    THEN /\ pc' = pc
         /\ ret' = ret
         /\ frame' = frame
         /\ req' = req
         /\ log' = Append(Answered(reply, "error", <<>>, <<>>),
                          [log[Len(log)] EXCEPT !.outcome = "pending"])
         /\ UNCHANGED agentOpen
    ELSE /\ Return(Raise(e))
         /\ log' = Answered(reply, "error", <<>>, <<>>)
         /\ UNCHANGED agentOpen

\* signer_func raised inside _make_signature: the exception leaves the call
Propagate(reply, e) == /\ Return(Raise(e))
                       /\ log' = Answered(reply, "error", <<>>, <<>>)
                       /\ UNCHANGED agentOpen

\* _make_signature(signer_func, ...) up to the blocking call of signer_func
Request(lg, callno, op, to, out, primary, data_to_sign, public_algo, hashed_subpackets, unhashed_subpackets, sig_type) ==
    LET m == _make_signature(data_to_sign, public_algo, hashed_subpackets,
                             unhashed_subpackets, sig_type)
    IN  IF out.err # "none" \/ m.err # "none"
        THEN /\ Return(IF out.err # "none" THEN out ELSE Raise(m.err))
             /\ log' = lg
        ELSE /\ pc' = (IF to = "hw" THEN "wait_hw" ELSE "wait_agent")
             /\ ret' = Null
             /\ req' = [to |-> to, digest |-> m.digest]
             /\ frame' = [op |-> op, out |-> out.val, primary |-> primary,
                          data_to_sign |-> data_to_sign.val,
                          header |-> m.header, hashed |-> m.hashed,
                          unhashed |-> m.unhashed, digest |-> m.digest]
             /\ log' = Append(lg, Entry(callno, op, to, sig_type, public_algo,
                                        data_to_sign.val,
                                        vals(hashed_subpackets),
                                        vals(unhashed_subpackets), m))

export ==
    /\ pc = "idle"
    /\ calls < MaxCalls
    /\ calls' = calls + 1
    /\ LET body           == data(pubkey)
           pubkey_packet  == after(body, packet(6, body.val))
           user_id_packet == packet(13, args.user_id)
           data_to_sign   ==
               cat(<<data_to_hash(pubkey),
                     after(user_id_packet, Ok(slice(user_id_packet.val, 0, 1))),
                     prefix_len(">L", args.user_id)>>)
           hashed_subpackets ==
               <<subpacket_time(pubkey.created), subpacket_byte(27, 3),
                 subpacket_byte(21, 8), subpacket_byte(22, 0),
                 subpacket_byte(23, 128)>>
           unhashed_subpackets == <<subpacket(16, key_id(pubkey))>>
       IN  Request(<<>>, calls + 1, "export", "hw", cat(<<pubkey_packet, user_id_packet>>),
                   NoPrimary, data_to_sign, pubkey.algo_id, hashed_subpackets,
                   unhashed_subpackets, 19)
    /\ UNCHANGED <<args, hw, agentOpen, pubkey>>

\* the first half of subkey: up to the device's signature of type 0x19
subkey(load) ==
    /\ pc = "idle"
    /\ calls < MaxCalls
    /\ calls' = calls + 1
    /\ LET body          == data(pubkey)
           subkey_packet == after(body, packet(14, body.val))
           primary       == load.primary
           loaded        == IF load.err = "none" THEN subkey_packet
                            ELSE cat(<<subkey_packet, Raise(load.err)>>)
           data_to_sign  == cat(<<Ok(primary._to_hash), data_to_hash(pubkey)>>)
           hashed_subpackets   == <<subpacket_time(pubkey.created)>>
           unhashed_subpackets == <<subpacket(16, key_id(pubkey))>>
       IN  Request(<<>>, calls + 1, "subkey", "hw", loaded, primary, data_to_sign,
                   pubkey.algo_id, hashed_subpackets, unhashed_subpackets, 25)
    /\ UNCHANGED <<args, hw, agentOpen, pubkey>>

sign(msg, sign_time) ==
    /\ pc = "idle"
    /\ calls < MaxCalls
    /\ calls' = calls + 1
    /\ LET hashed_subpackets   == <<subpacket_time(sign_time)>>
           unhashed_subpackets == <<subpacket(16, key_id(pubkey))>>
       IN  Request(<<>>, calls + 1, "sign", "hw", Ok(<<>>), NoPrimary, Ok(msg), pubkey.algo_id,
                   hashed_subpackets, unhashed_subpackets, 0)
    /\ UNCHANGED <<args, hw, agentOpen, pubkey>>

\* decode.load_from_gpg and agent.get_keygrip at the start of subkey
Loads == {[err |-> "none", primary |-> p] : p \in Primaries}
         \cup {[err |-> e, primary |-> NoPrimary] : e \in {"KeyringError", "AgentError"}}

\* variant: the embedded signature left out of the unhashed subpackets
subkey_unhashed_without_embedded(primary, embedded_sig) ==
    <<subpacket(16, Ok(primary.key_id))>>

\* the unhashed subpackets of the subkey binding signature
subkey_unhashed(primary, embedded_sig) ==
    <<subpacket(16, Ok(primary.key_id)), subpacket(32, Ok(embedded_sig))>>

\* the second half of subkey: after the embedded signature, open the agent
\* and ask it for the signature of type 0x18
subkey_binding(lg, embedded_sig, agent_init) ==
    LET hashed_subpackets   == <<subpacket_time(pubkey.created), subpacket_byte(27, 2)>>
        unhashed_subpackets == subkey_unhashed(frame.primary, embedded_sig)
    IN  IF agent_init = "connect_failed"
        THEN Return(Raise("AgentError")) /\ log' = lg /\ UNCHANGED agentOpen
        ELSE /\ agentOpen' = agentOpen + 1
             /\ IF agent_init = "keygrip_failed"
                THEN Return(Raise("AgentError")) /\ log' = lg
                ELSE Request(lg, calls, "subkey", "agent", Ok(frame.out), frame.primary,
                             Ok(frame.data_to_sign), frame.primary.algo,
                             hashed_subpackets, unhashed_subpackets, 24)

\* the device answers HardwareSigner.sign; _make_signature and the call go on
HwReply(reply, agent_init) ==
    /\ pc = "wait_hw"
    /\ frame.op # "subkey" => agent_init = "ok"
    /\ LET sig == HardwareSigner_sign(reply)
       IN  IF sig.err # "none"
           THEN Propagate(reply, sig.err)
           ELSE LET body == sig_body(frame.header, frame.hashed, frame.unhashed,
                                     frame.digest, sig.val)
                    lg   == Answered(reply, "ok", sig.val, body)
                IN  IF frame.op = "subkey"
                    THEN subkey_binding(lg, body, agent_init)
                    ELSE /\ Return(cat(<<Ok(frame.out), packet(2, body)>>))
                         /\ log' = lg
                         /\ UNCHANGED agentOpen
    /\ UNCHANGED <<args, hw, pubkey, calls>>

\* the agent answers AgentSigner.sign; subkey returns
AgentReply(reply) ==
    /\ pc = "wait_agent"
    /\ LET sig == AgentSigner_sign(reply)
       IN  IF sig.err # "none"
           THEN Propagate(reply, sig.err)
           ELSE LET body == sig_body(frame.header, frame.hashed, frame.unhashed,
                                     frame.digest, sig.val)
                IN  /\ Return(cat(<<Ok(frame.out), packet(2, body)>>))
                    /\ log' = Answered(reply, "ok", sig.val, body)
                    /\ UNCHANGED agentOpen
    /\ UNCHANGED <<args, hw, pubkey, calls>>

\* Signer.close -> HardwareSigner.close: clear_session(), then close()
close(cleared) ==
    /\ pc = "idle"
    /\ pc' = "done"
    /\ hw' = (IF cleared THEN "closed" ELSE hw)
    /\ ret' = (IF cleared THEN Ok(<<>>) ELSE Raise("DeviceError"))
    /\ UNCHANGED <<args, agentOpen, pubkey, frame, req, log, calls>>

Next == \/ \E u \in UserIds, c \in Createds, n \in CurveNames, d \in Devices :
               NewSigner(u, c, n, d)
        \/ \E k \in DiskKeys, u \in UserIds, d \in Devices : from_public_key(k, u, d)
        \/ export
        \/ \E l \in Loads : subkey(l)
        \/ \E m \in Msgs, t \in SignTimes : sign(m, t)
        \/ \E r \in HwReplies, a \in AgentInits : HwReply(r, a)
        \/ \E r \in AgentReplies : AgentReply(r)
        \/ \E b \in BOOLEAN : close(b)

Spec == Init /\ [][Next]_vars

(***************************************************************************)
(* Re-parsing of a framed packet, as a reader of the header byte does it:  *)
(* bit 7 is the marker, the two low bits are the length class and the bits *)
(* between them are the tag; the length field has 1, 2 or 4 bytes.         *)
(***************************************************************************)
IsByte(item) == item.t = "byte"

ParseClass(p) == p[1].v % 4

ParseTag(p) == (p[1].v % 128) \div 4

ParseWidth(p) == <<1, 2, 4, 0>>[ParseClass(p) + 1]

\* big-endian value of a run of literal bytes
ValueBE(bs) == strip(reverse([i \in 1..Len(bs) |-> bs[i].v]))

ParseLength(p) == ValueBE(SubSeq(p, 2, 1 + ParseWidth(p)))

ParseBody(p) == SubSeq(p, 2 + ParseWidth(p), Len(p))

WellFramed(p) == /\ Len(p) >= 2
                 /\ IsByte(p[1])
                 /\ p[1].v >= 128
                 /\ ParseClass(p) \in {0, 1, 2}
                 /\ Len(p) >= 1 + ParseWidth(p)
                 /\ \A i \in 2..(1 + ParseWidth(p)) : IsByte(p[i])
                 /\ ParseLength(p) = len(ParseBody(p))

SpecTags == 0..63

FiveBitTags == 0..31

Framable(blob) == below_pow(len(blob), 4)

RoundTrip == /\ ret.err = "none"
             /\ WellFramed(ret.val)
             /\ ParseTag(ret.val) = args.tag
             /\ ParseBody(ret.val) = args.blob

DistinctHeaders(tags) ==
    \A t \in tags \ {args.tag} : packet(t, args.blob).val[1] # ret.val[1]

\* C5 as stated: for every tag in 0..63 and every body shorter than 2^32,
\* re-parsing packet(tag, b) recovers tag and b, and no other tag of that
\* range gives the same header byte for the same body.
C5_AsStated ==
    (pc = "returned" /\ args.tag \in SpecTags /\ Framable(args.blob))
        => (RoundTrip /\ DistinctHeaders(SpecTags))

\* C5 amended: for every tag in 0..31 and every body shorter than 2^32,
\* re-parsing packet(tag, b) (tag = bits 6..2 of the header byte, class =
\* bits 1..0, length field of 1, 2 or 4 bytes) recovers tag and b, and no
\* other tag of 0..31 gives the same header byte for the same body.
C5_RoundTripFiveBitTags ==
    (pc = "returned" /\ args.tag \in FiveBitTags /\ Framable(args.blob))
        => (RoundTrip /\ DistinctHeaders(FiveBitTags))

C5_Witness == /\ pc = "returned"
              /\ args.tag = 31
              /\ args.blob = <<Blob(2, AbovePow(2, 1))>>
              /\ RoundTrip
              /\ ParseClass(ret.val) = 2

\* C6: packet(tag, body) frames a body shorter than 256 bytes with class 0
\* and a 1-byte length, a body shorter than 65536 bytes with class 1 and a
\* 2-byte length, any other body shorter than 2^32 bytes with class 2 and a
\* 4-byte length; the length field equals len(body) and the body follows
\* it; a body of 2^32 bytes or more is rejected with an error and nothing
\* is framed.
ExpectedClass(blob) == IF len(blob) \in {num(n) : n \in 0..255} THEN 0
                       ELSE IF Len(len(blob)) <= 2 THEN 1
                       ELSE 2

C6_LengthClass ==
    (pc = "returned" /\ args.tag \in SpecTags)
        => IF Framable(args.blob)
           THEN /\ ret.err = "none"
                /\ ParseClass(ret.val) = ExpectedClass(args.blob)
                /\ Len(ret.val) = 1 + <<1, 2, 4>>[ExpectedClass(args.blob) + 1]
                                    + Len(args.blob)
                /\ WellFramed(ret.val)
                /\ ParseLength(ret.val) = len(args.blob)
                /\ ParseBody(ret.val) = args.blob
           ELSE /\ ret.err # "none"
                /\ ret.val = <<>>

C6_WitnessBoundary == /\ pc = "returned"
                      /\ args.blob = <<Blob(1, AbovePow(2, 0))>>
                      /\ args.tag = 2
                      /\ ret.err = "none"
                      /\ ParseClass(ret.val) = 2
                      /\ ParseLength(ret.val) = <<0, 0, 1>>

(***************************************************************************)
(* Decoding of an MPI.                                                     *)
(***************************************************************************)
MpiBits(m) == m[1].v * 256 + m[2].v

MpiData(m) == SubSeq(m, 3, Len(m))

MpiShape(v) == /\ ret.err = "none"
               /\ Len(ret.val) >= 2
               /\ \A i \in 1..Len(ret.val) : IsByte(ret.val[i])
               /\ MpiBits(ret.val) = bit_length(v)
               /\ Len(MpiData(ret.val)) = (bit_length(v) + 7) \div 8
               /\ ValueBE(MpiData(ret.val)) = v
               /\ (v = <<>> => ret.val = <<B(0), B(0)>>)
               /\ (v # <<>> => MpiData(ret.val)[1].v # 0)

\* C7 as stated: for every non-negative v, mpi(v) is the 2-byte bit length
\* of v followed by ceil(bit_length(v)/8) data bytes, most significant
\* first, whose value is v, with no leading zero byte.
C7_AsStated == (pc = "returned") => MpiShape(args.value)

\* C7 amended: for every non-negative v with bit_length(v) < 2^16, mpi(v)
\* is the 2-byte bit length of v followed by ceil(bit_length(v)/8) data
\* bytes, most significant first, whose value is v; mpi(0) has bit length 0
\* and no data byte, and the first data byte of a nonzero v is not zero.
\* For bit_length(v) >= 2^16 mpi raises and returns nothing.
C7_MpiShape ==
    (pc = "returned")
        => IF bit_length(args.value) < 65536
           THEN MpiShape(args.value)
           ELSE ret.err # "none" /\ ret.val = <<>>

C7_Witness == /\ pc = "returned"
              /\ args.value = <<255, 0, 128>>
              /\ ret.val = <<B(0), B(24), B(128), B(0), B(255)>>

(***************************************************************************)
(* Properties of a signing session.                                        *)
(***************************************************************************)
Needed(op) == IF op = "subkey" THEN 2 ELSE 1

Returned == pc = "idle" /\ calls > 0

IsSuffix(s, t) == /\ Len(s) <= Len(t)
                  /\ SubSeq(t, Len(t) - Len(s) + 1, Len(t)) = s

Contains(t, s) == \E k \in 0..(Len(t) - Len(s)) : SubSeq(t, k + 1, k + Len(s)) = s

ExpectedHeader(e) == <<B(4), B(e.sig_type), B(e.public_algo), B(8)>>

ExpectedHashed(e) == subpackets(e.hashed_subpackets).val

ExpectedTail(e) ==
    <<B(4), B(255)>>
    \o [i \in 1..4 |-> B(digit(num(4 + Len(ExpectedHashed(e))), 5 - i))]

\* the body is whole: every part is there and it ends with the signature value
Complete(e) == /\ e.outcome = "ok"
               /\ e.reply.kind = "result"
               /\ e.sig # <<>>
               /\ IsSuffix(e.sig, e.body)
               /\ Len(e.body) = 4 + Len(ExpectedHashed(e))
                                  + Len(subpackets(e.unhashed_subpackets).val)
                                  + 1 + Len(e.sig)

\* C1: at the end of a session (the constructor raised, or close was
\* called) no hardware connection and no agent connection is open.
C1_AllReleasedAtExit == (pc = "done") => (hw # "open" /\ agentOpen = 0)

\* C2: a call of export, subkey or sign in which a signing capability
\* raised (the device's or, in subkey, the agent's after the device
\* succeeded) raises and returns no bytes; a call that returns bytes made
\* every sign request it needs, each succeeded, and the bytes end with the
\* signature packet of the last signature (which, in subkey, holds the
\* first one).
C2_CompleteOrNothing ==
    /\ (pc \in {"wait_hw", "wait_agent"}) => ret.val = <<>>
    /\ Returned =>
        /\ (\E i \in 1..Len(log) : log[i].outcome # "pending"
                                   /\ log[i].reply.kind = "raise")
              => ret.err # "none"
        /\ ret.err # "none" => ret.val = <<>>
        /\ ret.err = "none" =>
              /\ Len(log) >= 1
              /\ Len(log) = Needed(log[1].op)
              /\ \A i \in 1..Len(log) : Complete(log[i])
              /\ IsSuffix(packet(2, log[Len(log)].body).val, ret.val)
              /\ \A i \in 1..(Len(log) - 1) :
                    Contains(log[Len(log)].body, log[i].body)

C2_WitnessSecondFails ==
    /\ Returned
    /\ Len(log) = 2
    /\ Complete(log[1])
    /\ log[2].to = "agent"
    /\ log[2].outcome = "error"
    /\ log[2].reply.kind = "raise"
    /\ ret.err = "AgentError"
    /\ ret.val = <<>>

\* C3: a call makes one sign request per signature: export and sign one
\* request to the device, subkey one to the device (type 0x19) and then one
\* to the agent (type 0x18); a request that failed is the last request of
\* its call.
C3_OneRequestPerSignature ==
    /\ (pc \in {"wait_hw", "wait_agent"})
          <=> (Len(log) >= 1 /\ log[Len(log)].outcome = "pending")
    /\ Len(log) >= 1 =>
          /\ Len(log) <= Needed(log[1].op)
          /\ \A i \in 1..Len(log) : log[i].call = calls /\ log[i].op = log[1].op
          /\ \A i \in 1..(Len(log) - 1) : log[i].outcome = "ok"
          /\ \A i \in 1..Len(log) :
                log[i].outcome = "error" => (i = Len(log) /\ pc \in {"idle", "done"})
          /\ <<log[1].to, log[1].sig_type>> \in
                {<<"hw", 19>>, <<"hw", 25>>, <<"hw", 0>>}
          /\ Len(log) = 2 => <<log[2].to, log[2].sig_type>> = <<"agent", 24>>
    /\ (Returned /\ ret.err = "none") => (Len(log) >= 1 /\ Len(log) = Needed(log[1].op))

C3_WitnessFailedOnce ==
    /\ Returned
    /\ Len(log) = 1
    /\ log[1].op = "subkey"
    /\ log[1].outcome = "error"
    /\ ret.err = "DeviceError"

\* C4: whenever the sign request of the subkey binding signature (type
\* 0x18) exists, the primary key binding signature (type 0x19) was
\* requested before it in the same call and has returned, and its whole
\* body is the type-32 subpacket in the unhashed subpackets of the 0x18
\* signature; the unhashed area the builder holds while it waits for the
\* agent is the serialisation of those subpackets.
C4_EmbeddedBeforeOuter ==
    /\ \A j \in 1..Len(log) :
          log[j].sig_type = 24 =>
              /\ j = 2
              /\ log[1].sig_type = 25
              /\ log[1].to = "hw"
              /\ log[1].call = log[2].call
              /\ Complete(log[1])
              /\ Len(log[2].unhashed_subpackets) = 2
              /\ log[2].unhashed_subpackets[2] = <<B(32)>> \o log[1].body
    /\ pc = "wait_agent" =>
          /\ Len(log) = 2
          /\ log[2].sig_type = 24
          /\ req.digest = log[2].digest
          /\ frame.unhashed = subpackets(log[2].unhashed_subpackets).val
          /\ Contains(frame.unhashed, log[1].body)

C4_WitnessOuterRequested ==
    /\ pc = "wait_agent"
    /\ req.to = "agent"
    /\ Len(log) = 2
    /\ log[2].outcome = "pending"
    /\ Complete(log[1])
    /\ Contains(frame.unhashed, log[1].body)

\* C8: when from_public_key finds that the key id recomputed from (curve,
\* created, verifying_key) differs from the key id of the keyring entry, it
\* raises AssertionError, the caller gets no Signer, and no call, sign
\* request or output follows.
C8_MismatchAborts ==
    (/\ args.ctor = "from_public_key"
     /\ pubkey # NoKey
     /\ key_id(pubkey).val # args.disk.key_id)
        => /\ pc = "done"
           /\ ret = Raise("AssertionError")
           /\ calls = 0
           /\ log = <<>>
           /\ req = NoReq

C8_WitnessMismatch ==
    /\ args.ctor = "from_public_key"
    /\ pubkey # NoKey
    /\ pubkey.created = args.disk.created
    /\ key_id(pubkey).val # args.disk.key_id
    /\ pc = "done"
    /\ ret.err = "AssertionError"

\* C9: every raw device response that is not the marker byte 0x00 followed
\* by exactly 64 bytes makes HardwareSigner.sign raise; no encoded
\* signature is returned for it.
WellFormedRaw(raw) == Len(raw) = 65 /\ raw[1] = B(0)

C9_MalformedRaises ==
    \A i \in 1..Len(log) :
        (/\ log[i].to = "hw"
         /\ log[i].outcome # "pending"
         /\ log[i].reply.kind = "result"
         /\ ~WellFormedRaw(log[i].reply.signature))
            => (log[i].outcome = "error" /\ log[i].sig = <<>>)

\* C10: for every call of the signature builder, the digest handed to the
\* capability is SHA-256(data_to_sign + header + hashed + tail) with tail =
\* 04 FF u32(len(header) + len(hashed)), and the body returned is header +
\* hashed + subpackets(unhashed) + the first 2 bytes of that digest + the
\* value the capability returned.
C10_DigestAndBody ==
    /\ \A i \in 1..Len(log) :
          LET e == log[i]
          IN  /\ e.digest = sha256(e.data_to_sign \o ExpectedHeader(e)
                                   \o ExpectedHashed(e) \o ExpectedTail(e))
              /\ e.outcome = "ok" =>
                    /\ e.sig = (IF e.to = "hw" THEN HardwareSigner_sign(e.reply).val
                                ELSE AgentSigner_sign(e.reply).val)
                    /\ e.body = ExpectedHeader(e) \o ExpectedHashed(e)
                                \o subpackets(e.unhashed_subpackets).val
                                \o <<HashItem("sha256", e.digest[1].d, 0, 2)>>
                                \o e.sig
    /\ (pc \in {"wait_hw", "wait_agent"}) => req.digest = log[Len(log)].digest

C10_WitnessOuterSigned ==
    /\ Returned
    /\ ret.err = "none"
    /\ Len(log) = 2
    /\ log[2].outcome = "ok"
    /\ Len(log[2].unhashed_subpackets) = 2
    /\ Len(log[2].body) > Len(log[1].body)

====
